---- MODULE Spec2Model ----
(***************************************************************************)
(* Model of src/ii_compat/src/CPU/CPU.cpp: the CPU convex hull engines     *)
(* (grahamScan, quickHull/findHull, half_stable_partition) and calculate,  *)
(* the routine that runs both on one generated point set.                  *)
(*                                                                         *)
(* Points have integer coordinates, on which the float arithmetic of the   *)
(* source (differences and cross products of small integers) is exact.     *)
(* Arrays are functions over 0..n-1, indexed as the C++ pointers are:      *)
(* the pointer first + k of the source is the index k.                     *)
(***************************************************************************)
EXTENDS Integers, Sequences, FiniteSets, TLC

\* Bounds of the model: the largest coordinate of a generated point and the
\* largest point count calculate is called with.
MaxCoord == 2
MaxN == 4

Coords == 0..MaxCoord
Point == Coords \X Coords

----------------------------------------------------------------------------
\* struct point

cross(u, v) == u[1] * v[2] - u[2] * v[1]

lt(a, b) == a[1] < b[1] \/ (a[1] = b[1] /\ a[2] < b[2])

gt(a, b) == a[1] > b[1] \/ (a[1] = b[1] /\ a[2] > b[2])

minus(a, b) == <<a[1] - b[1], a[2] - b[2]>>

plus(a, b) == <<a[1] + b[1], a[2] + b[2]>>

----------------------------------------------------------------------------
\* Standard library algorithms, by their contracts

\* The function f as an explicit array: TLC evaluates [k \in S |-> e] anew at
\* every read, and f @@ <<>> is the same function, evaluated once.
array(f) == f @@ <<>>

swap(a, i, j) == [a EXCEPT ![i] = a[j], ![j] = a[i]]

\* std::min_element: the first smallest element of [first, last).
min_element(a, first, last) ==
    CHOOSE k \in first..(last - 1) :
        /\ \A j \in first..(last - 1) : ~lt(a[j], a[k])
        /\ \A j \in first..(k - 1) : lt(a[k], a[j])

\* std::minmax_element: the first smallest and the last largest element.
minmax_element(a, first, last) ==
    [first  |-> min_element(a, first, last),
     second |-> CHOOSE k \in first..(last - 1) :
                    /\ \A j \in first..(last - 1) : ~lt(a[k], a[j])
                    /\ \A j \in (k + 1)..(last - 1) : lt(a[j], a[k])]

\* The comparator lambda of std::sort in grahamScan.
polarLess(u, v) ==
    LET c == cross(u, v)
    IN  IF c # 0 THEN c > 0
        ELSE IF u[1] # v[1] THEN u[1] < v[1]
        ELSE u[2] < v[2]

\* The comparators std::sort is called with: std::greater<>() and operator<
\* in quickHull, the lambda in grahamScan.
compare(comp, u, v) ==
    CASE comp = "greater" -> gt(u, v)
      [] comp = "less"    -> lt(u, v)
      [] comp = "polar"   -> polarLess(u, v)

\* std::sort of [first, last) by the strict weak order comp: the element at
\* position first + r is the one that r elements of the range precede.
std_sort(a, first, last, comp) ==
    LET before(j1, j2) ==
            \/ compare(comp, a[j1], a[j2])
            \/ (~compare(comp, a[j2], a[j1]) /\ j1 < j2)
        rank(j) == Cardinality({j1 \in first..(last - 1) : before(j1, j)})
    IN  array([k \in DOMAIN a |->
                IF k >= first /\ k < last
                THEN a[CHOOSE j \in first..(last - 1) : rank(j) = k - first]
                ELSE a[k]])

\* A std::swap_ranges that returns the right end and swaps nothing.
swap_ranges_nothing(a, first1, last1, first2) ==
    [ps |-> a, ret |-> first2 + (last1 - first1)]

\* std::swap_ranges(first1, last1, first2): swaps [first1, last1) with the
\* range starting at first2, front to back; returns the end of the latter.
RECURSIVE swap_ranges(_, _, _, _)
swap_ranges(a, first1, last1, first2) ==
    IF first1 = last1
    THEN [ps |-> a, ret |-> first2]
    ELSE swap_ranges(swap(a, first1, first2), first1 + 1, last1, first2 + 1)

----------------------------------------------------------------------------
\* QuickHull

\* An isOuterior that only looks at the side of far_p towards v.
isOuterior_oneSide(uf, vf, far_p, q) ==
    cross(minus(q, far_p), vf) > 0

\* An isOuterior that also takes the points on the two lines through far_p.
isOuterior_onLine(uf, vf, far_p, q) ==
    LET pf == minus(q, far_p)
    IN  cross(pf, vf) >= 0 \/ cross(uf, pf) >= 0

\* The lambda isOuterior of findHull, with its captures uf, vf and far_p.
isOuterior(uf, vf, far_p, q) ==
    LET pf == minus(q, far_p)
    IN  cross(pf, vf) > 0 \/ cross(uf, pf) > 0

\* The loop of half_stable_partition, from iterator it on.
RECURSIVE hspLoop(_, _, _, _, _, _, _)
hspLoop(a, it, last, pivot, uf, vf, far_p) ==
    IF it = last
    THEN [ps |-> a, ret |-> pivot]
    ELSE IF isOuterior(uf, vf, far_p, a[it])
         THEN hspLoop(swap(a, it, pivot), it + 1, last, pivot + 1, uf, vf, far_p)
         ELSE hspLoop(a, it + 1, last, pivot, uf, vf, far_p)

\* half_stable_partition(first, last, pred), instantiated with the only
\* predicate it is called with, isOuterior.
half_stable_partition(a, first, last, uf, vf, far_p) ==
    hspLoop(a, first, last, first, uf, vf, far_p)

\* The farthest point loop of findHull, from iterator it on: far is the first
\* point of the largest cur_dist; ok is FALSE when ASSERT(cur_dist >= 0) fails.
RECURSIVE farLoop(_, _, _, _, _, _, _)
farLoop(a, it, last, u, d, dist, far) ==
    IF it = last
    THEN [ok |-> TRUE, far |-> far]
    ELSE LET cur_dist == cross(d, minus(u, a[it]))
         IN  IF cur_dist < 0
             THEN [ok |-> FALSE, far |-> far]
             ELSE IF cur_dist > dist
                  THEN farLoop(a, it + 1, last, u, d, cur_dist, it)
                  ELSE farLoop(a, it + 1, last, u, d, dist, far)

\* findHull(first, last, u, v) on the array a, in the order of the source;
\* each step hands the values it computed to the next one. The result is
\* [ps, ret, ok]: ret is the returned boundary; ok is FALSE when an ASSERT of
\* this call or of a call below it fails (the program halts there).
RECURSIVE findHull(_, _, _, _, _)
RECURSIVE findHullFar(_, _, _, _, _, _)
RECURSIVE findHullLeft(_, _, _, _, _, _, _)
RECURSIVE findHullRight(_, _, _, _, _, _, _)
RECURSIVE findHullSecond(_, _, _, _, _)

\* The final std::swap_ranges(far, right_boundary, left_boundary), given the
\* results l and r of the two recursive calls.
findHullMerge(far, l, r) ==
    IF ~r.ok
    THEN r
    ELSE LET sw == swap_ranges(r.ps, far, r.ret, l.ret)
         IN  [ps |-> sw.ps, ret |-> sw.ret, ok |-> TRUE]

\* The second recursive call, given p2, the result of the second partition.
findHullSecond(v, far, far_p, l, p2) ==
    findHullMerge(far, l, findHull(p2.ps, far, p2.ret, far_p, v))

\* The second partition, given l, the result of the first recursive call.
findHullRight(last, v, far, far_p, uf, vf, l) ==
    IF ~l.ok
    THEN l
    ELSE findHullSecond(v, far, far_p, l,
            half_stable_partition(l.ps, far + 1, last, uf, vf, far_p))

\* The first recursive call, given p1, the result of the first partition.
findHullLeft(first, last, u, v, far, far_p, p1) ==
    findHullRight(last, v, far, far_p, minus(u, far_p), minus(v, far_p),
                  findHull(p1.ps, first, p1.ret, u, far_p))

\* The steps after the farthest point loop, given its result fl.
findHullFar(a, first, last, u, v, fl) ==
    IF ~fl.ok
    THEN [ps |-> a, ret |-> last, ok |-> FALSE]
    ELSE findHullLeft(first, last, u, v, fl.far, a[fl.far],
            half_stable_partition(a, first + 1, fl.far,
                                  minus(u, a[fl.far]), minus(v, a[fl.far]), a[fl.far]))

findHull(a, first, last, u, v) ==
    IF a[first] # u
    THEN [ps |-> a, ret |-> last, ok |-> FALSE]
    ELSE IF first + 1 = last
    THEN [ps |-> a, ret |-> last, ok |-> TRUE]
    ELSE findHullFar(a, first, last, u, v,
                     farLoop(a, first + 1, last, u, minus(v, u), -1, first))

\* The predicate of std::partition in quickHull, with its captures right and v.
keptSide(right, v, q) ==
    q = right \/ cross(minus(q, right), v) > 0

\* std::partition(first, last, keptSide): the elements satisfying the
\* predicate come first. The order std::partition leaves inside each group is
\* unspecified; quickHull sorts both groups right after, so the one taken here
\* (the order of the input) does not reach the result.
std_partition(a, first, last, right, v) ==
    LET idx == first..(last - 1)
        kept == {j \in idx : keptSide(right, v, a[j])}
        pivot == first + Cardinality(kept)
        pos(j) == IF j \in kept
                  THEN first + Cardinality({j1 \in kept : j1 < j})
                  ELSE pivot + Cardinality({j1 \in idx \ kept : j1 < j})
    IN  [ps  |-> array([k \in DOMAIN a |->
                    IF k \in idx THEN a[CHOOSE j \in idx : pos(j) = k] ELSE a[k]]),
         ret |-> pivot]

\* quickHull(first, last) on the array a with DOMAIN a = first..(last - 1), in
\* the order of the source; each step hands the values it computed to the
\* next one. The result is [ps, ret, status]: status is "ok" when quickHull
\* returns ret; "assert" when an ASSERT fails; "oob" when it dereferences a
\* position outside [first, last): *min of an empty range, or *pivot when the
\* partition keeps every point (pivot == last).

\* The edge case test: the point right after pivot is on the line left-right.
edgeCase(a, pivot, last, left, right) ==
    /\ pivot + 1 # last
    /\ cross(minus(right, left), minus(a[pivot + 1], left)) = 0

\* The edge case and the final std::swap_ranges, given the results l and r of
\* the two findHull calls.
quickHullMerge(first, pivot, last, left, right, l, r) ==
    IF ~r.ok
    THEN [ps |-> r.ps, ret |-> 0, status |-> "assert"]
    ELSE IF edgeCase(r.ps, pivot, last, left, right) /\ pivot + 2 # r.ret
    THEN [ps |-> r.ps, ret |-> 0, status |-> "assert"]
    ELSE LET right_boundary == IF edgeCase(r.ps, pivot, last, left, right)
                               THEN r.ret - 1
                               ELSE r.ret
             sw == swap_ranges(r.ps, pivot, right_boundary, l.ret)
         IN  [ps |-> sw.ps, ret |-> sw.ret - first, status |-> "ok"]

\* The second findHull call, given the result l of the first.
quickHullRight(first, pivot, last, left, right, l) ==
    IF ~l.ok
    THEN [ps |-> l.ps, ret |-> 0, status |-> "assert"]
    ELSE quickHullMerge(first, pivot, last, left, right, l,
                        findHull(l.ps, pivot, last, left, right))

\* The two ASSERTs after the sorts and the first findHull call.
quickHullLeft(a, first, pivot, last, left, right) ==
    IF a[first] # right
    THEN [ps |-> a, ret |-> 0, status |-> "assert"]
    ELSE IF pivot = last
    THEN [ps |-> a, ret |-> 0, status |-> "oob"]
    ELSE IF a[pivot] # left
    THEN [ps |-> a, ret |-> 0, status |-> "assert"]
    ELSE quickHullRight(first, pivot, last, left, right,
                        findHull(a, first, pivot, right, left))

\* The two sorts, given the result part of std::partition.
quickHullSort(first, last, left, right, part) ==
    quickHullLeft(std_sort(std_sort(part.ps, first, part.ret, "greater"),
                           part.ret, last, "less"),
                  first, part.ret, last, left, right)

\* v and the partition, given left and right.
quickHullSplit(a, first, last, left, right) ==
    quickHullSort(first, last, left, right,
                  std_partition(a, first, last, right, minus(left, right)))

quickHull(a, first, last) ==
    IF first = last
    THEN [ps |-> a, ret |-> 0, status |-> "oob"]
    ELSE LET it == minmax_element(a, first, last)
         IN  quickHullSplit(a, first, last, a[it.first], a[it.second])

----------------------------------------------------------------------------
\* Graham scan: the loop that collapses equal angles

\* A collapse that stops at once: every point of a run of equal angles stays.
collapseRun_none(a, cnt, k, u) == [i |-> k, u |-> u]

\* The inner while loop of the collapse: skips forward while the next point is
\* collinear with the origin and u; returns the i and u it stops with.
RECURSIVE collapseRun(_, _, _, _)
collapseRun(a, cnt, k, u) ==
    IF k < cnt - 1
    THEN IF cross(u, a[k + 1]) # 0
         THEN [i |-> k, u |-> u]
         ELSE collapseRun(a, cnt, k + 1, a[k + 1])
    ELSE [i |-> k, u |-> u]

\* The collapse loop from index k on, with mm points written so far (ps[m++] = u).
RECURSIVE collapse(_, _, _, _)
collapse(a, cnt, k, mm) ==
    IF k < cnt
    THEN LET run == collapseRun(a, cnt, k, a[k])
         IN  collapse([a EXCEPT ![mm] = run.u], cnt, run.i + 1, mm + 1)
    ELSE [ps |-> a, m |-> mm]

----------------------------------------------------------------------------
\* The program: calculate(n), step by step

VARIABLES
    pc,          \* where calculate is
    n,           \* the argument of calculate
    buffer,      \* the pristine copy of the generated points
    ps,          \* the working array, positions [0, n)
    min,         \* grahamScan: the smallest point
    m,           \* grahamScan: the number of points left by the collapse
    s,           \* grahamScan: the index of the top of the stack
    i,           \* grahamScan: the index of the sweep
    p, v, cur,   \* grahamScan: the rolling pair and the point swept
    gs_ps,       \* ps as grahamScan left it at its return
    gs_ret,      \* the value grahamScan returned
    hull_count,  \* the value quickHull returned
    oob          \* TRUE once a position outside [0, n) was dereferenced

vars == <<pc, n, buffer, ps, min, m, s, i, p, v, cur, gs_ps, gs_ret, hull_count, oob>>

\* The points in lexicographic order: PointOf(r) is the r-th one.
NumPoints == (MaxCoord + 1) * (MaxCoord + 1)

PointOf(r) == <<r \div (MaxCoord + 1), r % (MaxCoord + 1)>>

\* The non-decreasing sequences of cnt point ranks that are at least lo.
RECURSIVE NonDecreasing(_, _)
NonDecreasing(cnt, lo) ==
    IF cnt = 0
    THEN {<<>>}
    ELSE UNION {{<<r>> \o t : t \in NonDecreasing(cnt - 1, r)} : r \in lo..(NumPoints - 1)}

\* The point sets calculate generates, cnt points each, duplicates included:
\* every multiset of cnt points, in its lexicographic order rotated by rot
\* positions, for every rot. Both engines sort what they are given
\* (grahamScan after moving the smallest point to the front), so what the
\* order of the input decides is where they find the smallest and the largest
\* point, and the rotations put these at every position.
Inputs(cnt) ==
    IF cnt = 0
    THEN {<<>>}
    ELSE {[k \in 0..(cnt - 1) |-> PointOf(f[((k + rot) % cnt) + 1])] :
             f \in NonDecreasing(cnt, 0), rot \in 0..(cnt - 1)}

\* After init(): both arrays allocated, nothing computed.
Init ==
    /\ pc = "idle"
    /\ n = 0
    /\ buffer = <<>>
    /\ ps = <<>>
    /\ min = <<0, 0>>
    /\ m = 0
    /\ s = 0
    /\ i = 0
    /\ p = <<0, 0>>
    /\ v = <<0, 0>>
    /\ cur = <<0, 0>>
    /\ gs_ps = <<>>
    /\ gs_ret = 0
    /\ hull_count = 0
    /\ oob = FALSE

\* calculate(n), the generation loop: ps[i] = buffer[i] = generated point.
Generate ==
    /\ pc = "idle"
    /\ \E cnt \in 0..MaxN : \E pts \in Inputs(cnt) :
          /\ n' = cnt
          /\ buffer' = pts
          /\ ps' = pts
    /\ pc' = "graham"
    /\ UNCHANGED <<min, m, s, i, p, v, cur, gs_ps, gs_ret, hull_count, oob>>

\* grahamScan: the smallest point to the front, the translation and the sort.
\* With n = 0 min_element returns ps + 0 == last, *min_it is outside the
\* range and std::sort(ps + 1, ps + 0) gets an invalid range: undefined.
GrahamSort ==
    /\ pc = "graham"
    /\ IF n = 0
       THEN /\ oob' = TRUE
            /\ pc' = "ub"
            /\ UNCHANGED <<ps, min>>
       ELSE LET min_it == min_element(ps, 0, n)
                mn == ps[min_it]
                sw == swap(ps, min_it, 0)
                tr == array([k \in DOMAIN sw |-> minus(sw[k], mn)])
            IN  /\ min' = mn
                /\ ps' = std_sort(tr, 1, n, "polar")
                /\ pc' = "collapse"
                /\ oob' = oob
    /\ UNCHANGED <<n, buffer, m, s, i, p, v, cur, gs_ps, gs_ret, hull_count>>

\* grahamScan: the collapse of equal angles and the seed of the sweep. With
\* n = 1 the seed reads ps[1], outside the range: any point value.
GrahamCollapse ==
    /\ pc = "collapse"
    /\ \E c \in {collapse(ps, n, 1, 1)} :
           /\ ps' = c.ps
           /\ m' = c.m
           /\ p' = c.ps[0]
           /\ IF n > 1
              THEN /\ v' = minus(c.ps[1], c.ps[0])
                   /\ oob' = oob
              ELSE /\ \E g \in Point : v' = minus(g, c.ps[0])
                   /\ oob' = TRUE
    /\ s' = 1
    /\ i' = 2
    /\ pc' = "sweep"
    /\ UNCHANGED <<n, buffer, min, cur, gs_ps, gs_ret, hull_count>>

\* grahamScan, the head of the sweep loop: i < m, cur = ps[i].
SweepNext ==
    /\ pc = "sweep"
    /\ i < m
    /\ cur' = ps[i]
    /\ pc' = "while"
    /\ UNCHANGED <<n, buffer, ps, min, m, s, i, p, v, gs_ps, gs_ret, hull_count, oob>>

\* A condition that pops on a clockwise turn only, not on a straight one.
popCondition_strict == s > 0 /\ cross(minus(cur, p), v) > 0

\* The condition of the while loop of the sweep.
popCondition == s > 0 /\ cross(minus(cur, p), v) >= 0

\* grahamScan, the body of the while loop: one pop. With s == 0 after the
\* decrement p = ps[s - 1] reads ps[-1], outside the range: any point value.
SweepPop ==
    /\ pc = "while"
    /\ popCondition
    /\ s' = s - 1
    /\ IF s - 1 >= 1
       THEN /\ p' = ps[s - 2]
            /\ oob' = oob
       ELSE /\ \E g \in Point : p' = g
            /\ oob' = TRUE
    /\ v' = minus(ps[s - 1], p')
    /\ UNCHANGED <<pc, n, buffer, ps, min, m, i, cur, gs_ps, gs_ret, hull_count>>

\* grahamScan, the end of the sweep iteration: the push.
SweepPush ==
    /\ pc = "while"
    /\ ~popCondition
    /\ s' = s + 1
    /\ ps' = swap(ps, i, s + 1)
    /\ p' = plus(p, v)
    /\ v' = minus(cur, plus(p, v))
    /\ i' = i + 1
    /\ pc' = "sweep"
    /\ UNCHANGED <<n, buffer, min, m, cur, gs_ps, gs_ret, hull_count, oob>>

\* grahamScan, after the sweep: the translation back and return s + 1.
GrahamReturn ==
    /\ pc = "sweep"
    /\ ~(i < m)
    /\ ps' = [k \in DOMAIN ps |-> plus(ps[k], min)]
    /\ gs_ps' = ps'
    /\ gs_ret' = s + 1
    /\ pc' = "quick"
    /\ UNCHANGED <<n, buffer, min, m, s, i, p, v, cur, hull_count, oob>>

\* calculate: std::copy(buffer, buffer + n, ps) and quickHull(ps, ps + n).
\* A dereference outside the range yields any value: an ASSERT on it fails or
\* the run goes on into findHull on an empty range, which never ends in range.
QuickHull ==
    /\ pc = "quick"
    /\ \E r \in {quickHull(buffer, 0, n)} :
           /\ ps' = r.ps
           /\ hull_count' = r.ret
           /\ oob' = (oob \/ r.status = "oob")
           /\ IF r.status = "ok" THEN pc' = "done"
              ELSE IF r.status = "assert" THEN pc' = "aborted"
              ELSE pc' \in {"aborted", "ub"}
    /\ UNCHANGED <<n, buffer, min, m, s, i, p, v, cur, gs_ps, gs_ret>>

Next ==
    \/ Generate
    \/ GrahamSort
    \/ GrahamCollapse
    \/ SweepNext
    \/ SweepPop
    \/ SweepPush
    \/ GrahamReturn
    \/ QuickHull

Spec == Init /\ [][Next]_vars

----------------------------------------------------------------------------
\* Vocabulary of the properties

\* The point values of an array, and those of its positions [0, k).
Values(a) == {a[j] : j \in DOMAIN a}

Prefix(a, k) == {a[j] : j \in 0..(k - 1)}

\* The number of positions of a that hold q.
Count(a, q) == Cardinality({j \in DOMAIN a : a[j] = q})

SameMultiset(a, b) == \A q \in Values(a) \cup Values(b) : Count(a, q) = Count(b, q)

\* q lies on the closed segment from a to b.
OnSegment(q, a, b) ==
    /\ cross(minus(b, a), minus(q, a)) = 0
    /\ (q[1] - a[1]) * (q[1] - b[1]) <= 0
    /\ (q[2] - a[2]) * (q[2] - b[2]) <= 0

\* q lies in the closed triangle a, b, c, which is not degenerate.
InTriangle(q, a, b, c) ==
    LET d1 == cross(minus(b, a), minus(q, a))
        d2 == cross(minus(c, b), minus(q, b))
        d3 == cross(minus(a, c), minus(q, c))
    IN  /\ cross(minus(b, a), minus(c, a)) # 0
        /\ \/ (d1 >= 0 /\ d2 >= 0 /\ d3 >= 0)
           \/ (d1 <= 0 /\ d2 <= 0 /\ d3 <= 0)

\* The vertices (extreme points) of the convex hull of the point set S: the
\* points of S that are no convex combination of other points of S, that is
\* (Caratheodory) in no segment and no triangle spanned by other points.
HullVertices(S) ==
    {q \in S :
        LET T == S \ {q}
        IN  /\ \A a \in T : \A b \in T : ~OnSegment(q, a, b)
            /\ \A a \in T : \A b \in T : \A c \in T : ~InTriangle(q, a, b, c)}

TwoDistinct == Cardinality(Values(buffer)) >= 2

NonCollinear ==
    \E a \in Values(buffer) : \E b \in Values(buffer) : \E c \in Values(buffer) :
        cross(minus(b, a), minus(c, a)) # 0

\* The largest and the smallest generated point.
MaxPoint == CHOOSE q \in Values(buffer) : \A r \in Values(buffer) : ~lt(q, r)

MinPoint == CHOOSE q \in Values(buffer) : \A r \in Values(buffer) : ~lt(r, q)

\* The turn at position j of the closed polygon a[0], ..., a[k - 1].
Turn(a, k, j) ==
    cross(minus(a[(j + 1) % k], a[j]), minus(a[(j + 2) % k], a[(j + 1) % k]))

\* Twice the signed area of the closed polygon a[0], ..., a[k - 1], summed
\* from position j on.
RECURSIVE SignedArea2(_, _, _)
SignedArea2(a, k, j) ==
    IF j >= k THEN 0 ELSE cross(a[j], a[(j + 1) % k]) + SignedArea2(a, k, j + 1)

\* calculate has ended: quickHull returned, an ASSERT halted the program, or
\* the program ran into undefined behaviour.
Ended == pc \in {"done", "aborted", "ub"}

\* grahamScan has returned.
GrahamReturned == pc \in {"quick", "done", "aborted"} \/ (pc = "ub" /\ n > 0)

----------------------------------------------------------------------------
\* Properties

\* C1: for n >= 2 points holding at least two distinct points, quickHull
\* returns k such that positions [0, k) hold exactly the vertices of the
\* convex hull of the input, each point value once.
C1_QuickHullPrefixIsHull ==
    (pc = "done" /\ n >= 2 /\ TwoDistinct) =>
        /\ Prefix(ps, hull_count) = HullVertices(Values(buffer))
        /\ \A j1 \in 0..(hull_count - 1) : \A j2 \in 0..(hull_count - 1) :
              ps[j1] = ps[j2] => j1 = j2

\* C2: for n >= 2 points holding at least two distinct points, the point
\* values of grahamScan's prefix [0, k_G) are those of quickHull's prefix
\* [0, k_Q), both run on the same input.
C2_EnginesAgree ==
    (pc = "done" /\ n >= 2 /\ TwoDistinct) =>
        Prefix(gs_ps, gs_ret) = Prefix(ps, hull_count)

\* C2, its case: both engines returned for four points of which one was left
\* out of a hull of three.
C2_Witness ==
    /\ pc = "done"
    /\ n = 4
    /\ Cardinality(Values(buffer)) = 4
    /\ gs_ret = 3
    /\ hull_count = 3

\* C3: for an input holding three points that are not collinear, quickHull's
\* prefix starts with the largest point and is in counter-clockwise order:
\* the closed polygon through positions 0, ..., k - 1 has positive signed
\* area and turns clockwise at no vertex.
C3_QuickHullCounterClockwise ==
    (pc = "done" /\ NonCollinear) =>
        /\ ps[0] = MaxPoint
        /\ SignedArea2(ps, hull_count, 0) > 0
        /\ \A j \in 0..(hull_count - 1) : Turn(ps, hull_count, j) >= 0

\* C3, its case: quickHull returned a hull of four distinct vertices.
C3_Witness ==
    /\ pc = "done"
    /\ NonCollinear
    /\ hull_count = 4
    /\ Cardinality(Prefix(ps, hull_count)) = 4

\* C4: for n >= 2 points, after grahamScan returned k >= 3, no three
\* cyclically consecutive points of positions [0, k) are collinear.
C4_GrahamNoCollinearTriple ==
    (GrahamReturned /\ n >= 2 /\ gs_ret >= 3) =>
        \A j \in 0..(gs_ret - 1) : Turn(gs_ps, gs_ret, j) # 0

\* C4, its case: grahamScan returned three vertices for four distinct points,
\* one of them inside the edge between two of the vertices.
C4_Witness ==
    /\ GrahamReturned
    /\ n = 4
    /\ Cardinality(Values(buffer)) = 4
    /\ gs_ret = 3
    /\ \E q \in Values(buffer) \ Prefix(gs_ps, gs_ret) :
          \E a \in Prefix(gs_ps, gs_ret) : \E b \in Prefix(gs_ps, gs_ret) :
              OnSegment(q, a, b)

\* C5: for an input of exactly two distinct point values, each any number of
\* times, quickHull returns 2 and the prefix [0, 2) holds the two values.
C5_TwoValuesGiveTwo ==
    (Ended /\ Cardinality(Values(buffer)) = 2) =>
        /\ pc = "done"
        /\ hull_count = 2
        /\ Prefix(ps, 2) = Values(buffer)

\* C6: for n = 1 calculate completes and returns 1 with the point at position
\* 0; no ASSERT fails and no position outside [0, 1) is read or written.
C6_SinglePoint ==
    (n = 1) =>
        /\ ~oob
        /\ pc \notin {"aborted", "ub"}
        /\ pc = "done" => (hull_count = 1 /\ ps[0] = buffer[0])

\* C7: calculate(0) is rejected before either engine runs: with n = 0 no
\* engine is entered, so nothing is read out of range and nothing is undefined.
C7_EmptyInputRejected ==
    (n = 0) =>
        /\ pc \in {"idle", "graham"}
        /\ ~oob

\* C8: for n >= 2 points each engine only rearranges its array: after
\* grahamScan returned, and after quickHull returned, positions [0, n) hold
\* the multiset of the input points.
C8_EnginesOnlyRearrange ==
    /\ (GrahamReturned /\ n >= 2) => SameMultiset(gs_ps, buffer)
    /\ (pc = "done" /\ n >= 2) => SameMultiset(ps, buffer)

\* C9: for n >= 2 points holding at least two distinct points, no ASSERT of
\* quickHull or findHull fails (first element equals u and cur_dist >= 0 in
\* every findHull call, *first == right, *pivot == left, and right_boundary
\* == pivot + 2 in the edge case): calculate ends by quickHull's return.
C9_NoAssertFails ==
    (Ended /\ n >= 2 /\ TwoDistinct) => (pc = "done" /\ ~oob)

\* C9, its case: quickHull returned for four distinct points, one of them on
\* the line between the smallest and the largest one (the edge case) and one
\* off that line (findHull recursed).
C9_Witness ==
    /\ pc = "done"
    /\ n = 4
    /\ Cardinality(Values(buffer)) = 4
    /\ NonCollinear
    /\ \E q \in Values(buffer) \ {MinPoint, MaxPoint} :
          cross(minus(MaxPoint, MinPoint), minus(q, MinPoint)) = 0

\* C10: for n >= 2 points the stack of the sweep never shrinks below two
\* vertices: s >= 1 throughout, so ps[s - 1] is always inside [0, m), and at
\* the start of every sweep iteration p is ps[s - 1] and v is ps[s] - ps[s - 1].
C10_StackKeepsTwo ==
    (pc \in {"sweep", "while"} /\ n >= 2) =>
        /\ s >= 1
        /\ s < m
        /\ ~oob
        /\ pc = "sweep" => (p = ps[s - 1] /\ v = minus(ps[s], ps[s - 1]))

\* C10, its case: the sweep has popped and pushed again, and starts an
\* iteration with fewer vertices on the stack than points swept.
C10_Witness ==
    /\ pc = "sweep"
    /\ n >= 2
    /\ s + 1 < i

====
